---- MODULE Spec2Model ----
(***************************************************************************)
(* A model of skbio/diversity/_driver.py: the alpha/beta diversity drivers *)
(* alpha_diversity and beta_diversity and the restricted pairwise computer *)
(* _partial_pw.  Every call is stateless: a behaviour is one call, whose   *)
(* arguments are drawn by the initial predicate and whose statements are   *)
(* the actions, in program order.                                          *)
(***************************************************************************)
EXTENDS Integers, Sequences, FiniteSets, TLC

VARIABLES
    entry,          \* the function that was called
    args,           \* history: the arguments as the caller passed them
    pc,             \* position in the call
    metric,         \* parameter `metric` (rebound by metric resolution)
    counts,         \* parameter `counts` (rebound by validation / tree setup)
    ids,            \* parameter `ids` (None or a list)
    validate,       \* parameter `validate`
    pairwise_func,  \* parameter `pairwise_func` (rebound by backend selection)
    id_pairs,       \* parameter `id_pairs` (None or a list of 2-tuples)
    kwargs,         \* parameter `**kwargs`: the keywords supplied
    tree,           \* the tree object passed as kwargs['tree']
    dm,             \* _partial_pw: the dense matrix
    k,              \* loop position (next pair of id_pairs / next row of counts)
    results,        \* alpha_diversity: the list `results`
    distances,      \* beta_diversity: the backend's output
    ret,            \* the value returned
    err,            \* the exception raised
    calls,          \* history: the metric calls made, in order
    writes,         \* history: the cells of dm assigned, in order
    setups,         \* history: the tree-aware setup routines invoked, in order
    backends        \* history: the pairwise backends invoked, in order

vars == <<entry, args, pc, metric, counts, ids, validate, pairwise_func, id_pairs,
          kwargs, tree, dm, k, results, distances, ret, err, calls, writes,
          setups, backends>>

----------------------------------------------------------------------------
(* Bounds of the model. *)

\* longest id_pairs list passed to a direct _partial_pw call
MaxPairs == 3

\* the identifiers a call may name; `ids` is a prefix of it, so id_pairs can
\* name identifiers that are not in `ids`
SampleIds == <<"a", "b", "c">>

\* the rows a counts matrix is made of (two features per sample)
ValidRows == {<<1, 0>>, <<1, 1>>}

----------------------------------------------------------------------------
(* Values. *)

Range(s) == {s[i] : i \in DOMAIN s}

\* Python's None and a present value, for the optional list parameters
None == [some |-> FALSE, v |-> <<>>]

Some(x) == [some |-> TRUE, v |-> x]

\* an array: its number of dimensions and its data, a 1-D vector being held
\* as one row
Array(nd, rows) == [nd |-> nd, rows |-> rows]

Matrix(rows) == Array(2, rows)

\* a metric reference: a name string or a callable
Str(name) == [kind |-> "str", name |-> name]

Callable(name) == [kind |-> "callable", name |-> name]

NoErr == [type |-> "none", msg |-> "", value |-> ""]

ValueError(msg) == [type |-> "ValueError", msg |-> msg, value |-> ""]

NoDistances == [form |-> "none", n |-> 0, vec |-> <<>>, mat |-> <<>>]

Condensed(vec, n) == [form |-> "condensed", n |-> n, vec |-> vec, mat |-> <<>>]

Square(mat, n) == [form |-> "square", n |-> n, vec |-> <<>>, mat |-> mat]

----------------------------------------------------------------------------
(* The binary callables a caller may pass as `metric`. *)

Abs(x) == IF x < 0 THEN -x ELSE x

Pos(x) == IF x < 0 THEN 0 ELSE x

RECURSIVE SumTo(_, _)
SumTo(f, n) == IF n = 0 THEN 0 ELSE f[n] + SumTo(f, n - 1)

\* city-block distance: symmetric, zero on equal rows
manhattan(x, y) == SumTo([i \in DOMAIN x |-> Abs(x[i] - y[i])], Len(x))

\* the counts x has in excess of y: not symmetric
excess(x, y) == SumTo([i \in DOMAIN x |-> Pos(x[i] - y[i])], Len(x))

\* the nodes present in exactly one of the two node-level rows
unweighted_unifrac_f(x, y) ==
    Cardinality({i \in DOMAIN x : (x[i] > 0) # (y[i] > 0)})

\* the node-level abundance difference of the two rows
weighted_unifrac_f(x, y) == manhattan(x, y)

\* metric(x, y): a callable, or a name the backend resolves itself
CallMetric(m, x, y) ==
    CASE m.name = "manhattan" -> manhattan(x, y)
      [] m.name = "excess" -> excess(x, y)
      [] m.name = "cityblock" -> manhattan(x, y)
      [] m.name = "unweighted_unifrac" -> unweighted_unifrac_f(x, y)
      [] m.name = "weighted_unifrac" -> weighted_unifrac_f(x, y)

----------------------------------------------------------------------------
(* scipy.spatial.distance: condensed vectors and square matrices. *)

Cells(n) == (1..n) \X (1..n)

RECURSIVE RowMajor(_, _, _)
RowMajor(i, j, n) ==
    IF i >= n THEN <<>>
    ELSE IF j > n THEN RowMajor(i + 1, i + 2, n)
    ELSE <<<<i, j>>>> \o RowMajor(i, j + 1, n)

\* the cells of the upper triangle, row-major, excluding the diagonal
UpperPairs(n) == RowMajor(1, 2, n)

IsSymmetric(M, n) == \A c \in Cells(n) : M[c] = M[<<c[2], c[1]>>]

IsHollow(M, n) == \A i \in 1..n : M[<<i, i>>] = 0

\* squareform(M) of a square matrix: its condensed form; it refuses a matrix
\* that is not symmetric or has a non-zero diagonal
squareform(M, n) ==
    IF IsSymmetric(M, n) /\ IsHollow(M, n)
    THEN Condensed([p \in 1..Len(UpperPairs(n)) |-> M[UpperPairs(n)[p]]], n)
    ELSE NoDistances

\* squareform(v) of a condensed vector: the symmetric hollow square matrix
ToSquare(vec, n) ==
    [c \in Cells(n) |->
        IF c[1] = c[2] THEN 0
        ELSE LET lo == IF c[1] < c[2] THEN c ELSE <<c[2], c[1]>>
                 p == CHOOSE q \in 1..Len(UpperPairs(n)) : UpperPairs(n)[q] = lo
             IN vec[p]]

\* pdist(X, metric) for a callable metric: metric(X[i], X[j]) for i < j
pdist(X, m) ==
    LET n == Len(X.rows)
    IN Condensed([p \in 1..Len(UpperPairs(n)) |->
                    CallMetric(m, X.rows[UpperPairs(n)[p][1]],
                                  X.rows[UpperPairs(n)[p][2]])], n)

----------------------------------------------------------------------------
(* _partial_pw *)

ErrIdsRequired == ValueError("ids must be specified if id_pairs is specified")

ErrNotSubset == ValueError("id_pairs are not a subset of ids")

ErrDuplicate == ValueError("Duplicate ID pairs observed.")

ErrNotCallable == ValueError("metric must be callable")

all_ids_in_pairs(pairs) ==
    {pairs[p][1] : p \in DOMAIN pairs} \cup {pairs[p][2] : p \in DOMAIN pairs}

Reversed(pair) == <<pair[2], pair[1]>>

hashes(pairs) == Range(pairs) \cup {Reversed(pairs[p]) : p \in DOMAIN pairs}

\* the check of `hashes`, with the reversed tuples left out of the set
DuplicateCheckSameOrientation(pairs) == Cardinality(Range(pairs)) # Len(pairs)

DuplicateCheck(pairs) == Cardinality(hashes(pairs)) # Len(pairs) * 2

\* the four checks with the metric check moved to the front
PartialPwErrorMetricFirst(ids_, pairs, m) ==
    IF m.kind = "str" THEN ErrNotCallable
    ELSE IF ~ids_.some THEN ErrIdsRequired
    ELSE IF ~(all_ids_in_pairs(pairs) \subseteq Range(ids_.v)) THEN ErrNotSubset
    ELSE IF DuplicateCheck(pairs) THEN ErrDuplicate
    ELSE NoErr

\* the checks without the refusal of a metric given by name
PartialPwErrorNoMetricCheck(ids_, pairs, m) ==
    IF ~ids_.some THEN ErrIdsRequired
    ELSE IF ~(all_ids_in_pairs(pairs) \subseteq Range(ids_.v)) THEN ErrNotSubset
    ELSE IF DuplicateCheck(pairs) THEN ErrDuplicate
    ELSE NoErr

\* the exception the precondition checks raise, NoErr when all of them pass
PartialPwError(ids_, pairs, m) ==
    IF ~ids_.some THEN ErrIdsRequired
    ELSE IF ~(all_ids_in_pairs(pairs) \subseteq Range(ids_.v)) THEN ErrNotSubset
    ELSE IF DuplicateCheck(pairs) THEN ErrDuplicate
    ELSE IF m.kind = "str" THEN ErrNotCallable
    ELSE NoErr

id_index(ids_, id_) == CHOOSE idx \in DOMAIN ids_.v : ids_.v[idx] = id_

\* the k-th element of the generator id_pairs_indexed
id_pairs_indexed(ids_, pairs, i) ==
    <<id_index(ids_, pairs[i][1]), id_index(ids_, pairs[i][2])>>

\* an iteration that assigns the value to both cells of the pair
LoopCellsBoth(u, v) == <<<<u, v>>, <<v, u>>>>

\* the cells of dm one iteration of the loop assigns
LoopCells(u, v) == <<<<u, v>>>>

RECURSIVE Assign(_, _, _)
Assign(M, cells, val) ==
    IF cells = <<>> THEN M
    ELSE Assign([M EXCEPT ![Head(cells)] = val], Tail(cells), val)

\* the fold without the transpose: the upper triangle of dm alone
FoldUpperOnly(M, n) ==
    Condensed([p \in 1..Len(UpperPairs(n)) |-> M[UpperPairs(n)[p]]], n)

\* squareform(dm + dm.T)
Fold(M, n) == squareform([c \in Cells(n) |-> M[c] + M[<<c[2], c[1]>>]], n)

\* the precondition checks, then np.zeros and the index map
partial_pw_checks ==
    /\ pc = "pw_enter"
    /\ LET e == PartialPwError(ids, id_pairs.v, metric)
       IN IF e # NoErr
          THEN /\ err' = e
               /\ pc' = "raised"
               /\ UNCHANGED <<dm, k>>
          ELSE /\ dm' = [c \in Cells(Len(ids.v)) |-> 0]
               /\ k' = 1
               /\ pc' = "pw_loop"
               /\ UNCHANGED err
    /\ UNCHANGED <<entry, args, metric, counts, ids, validate, pairwise_func,
                   id_pairs, kwargs, tree, results, distances, ret, calls,
                   writes, setups, backends>>

\* one iteration of `for u, v in id_pairs_indexed`
partial_pw_loop ==
    /\ pc = "pw_loop"
    /\ k <= Len(id_pairs.v)
    /\ LET uv == id_pairs_indexed(ids, id_pairs.v, k)
           val == CallMetric(metric, counts.rows[uv[1]], counts.rows[uv[2]])
       IN /\ calls' = Append(calls, uv)
          /\ dm' = Assign(dm, LoopCells(uv[1], uv[2]), val)
          /\ writes' = writes \o LoopCells(uv[1], uv[2])
    /\ k' = k + 1
    /\ UNCHANGED <<entry, args, pc, metric, counts, ids, validate, pairwise_func,
                   id_pairs, kwargs, tree, results, distances, ret, err,
                   setups, backends>>

\* return squareform(dm + dm.T)
partial_pw_return ==
    /\ pc = "pw_loop"
    /\ k > Len(id_pairs.v)
    /\ LET d == Fold(dm, Len(ids.v))
       IN IF d = NoDistances
          THEN /\ err' = ValueError("Distance matrix X must be symmetric.")
               /\ pc' = "raised"
               /\ UNCHANGED <<distances, ret>>
          ELSE IF entry = "_partial_pw"
          THEN /\ ret' = d
               /\ pc' = "returned"
               /\ UNCHANGED <<distances, err>>
          ELSE /\ distances' = d
               /\ pc' = "b_wrap"
               /\ UNCHANGED <<ret, err>>
    /\ UNCHANGED <<entry, args, metric, counts, ids, validate, pairwise_func,
                   id_pairs, kwargs, tree, dm, k, results, calls, writes,
                   setups, backends>>

----------------------------------------------------------------------------
(* The collaborators of the drivers that live in other modules of the      *)
(* package: input validation, the phylogenetic keyword extractor, the      *)
(* tree-aware setup routines and the DistanceMatrix constructor.           *)

MissingNodeError ==
    [type |-> "MissingNodeError", msg |-> "tip missing from tree", value |-> ""]

DistanceMatrixError ==
    [type |-> "DistanceMatrixError", msg |-> "not symmetric and hollow",
     value |-> ""]

ErrInvalidCounts == ValueError("Counts vector cannot contain negative values.")

ErrPhyloKwargs == ValueError("otu_ids and tree are required")

IsValidCounts(X) ==
    \A r \in DOMAIN X.rows : \A i \in DOMAIN X.rows[r] : X.rows[r][i] >= 0

\* _validate_counts_matrix: the exception it raises on malformed counts
ValidateError(X) == IF IsValidCounts(X) THEN NoErr ELSE ErrInvalidCounts

\* _validate_counts_matrix: a 1-D vector is promoted to a one-row matrix
validate_counts_matrix(X) == Array(2, X.rows)

\* _get_phylogenetic_kwargs: otu_ids and tree are required keywords
PhyloKwargsError(kw) ==
    IF {"otu_ids", "tree"} \subseteq kw THEN NoErr ELSE ErrPhyloKwargs

\* the tree-aware setup validates the tree against the otu ids when asked to
SetupError(validate_, tree_) ==
    IF validate_ /\ tree_ = "missing_tip" THEN MissingNodeError ELSE NoErr

\* node-level counts: one column per tip and one for the root, which holds
\* the abundance of all the tips below it
counts_by_node(X) ==
    Array(X.nd, [r \in DOMAIN X.rows |->
                    X.rows[r] \o <<SumTo(X.rows[r], Len(X.rows[r]))>>])

\* DistanceMatrix(data, ids): a condensed vector is expanded; a square
\* matrix must be symmetric with a zero diagonal
DistanceMatrix(d) ==
    IF d.form = "condensed"
    THEN [err |-> NoErr, dm |-> Square(ToSquare(d.vec, d.n), d.n)]
    ELSE IF IsSymmetric(d.mat, d.n) /\ IsHollow(d.mat, d.n)
    THEN [err |-> NoErr, dm |-> d]
    ELSE [err |-> DistanceMatrixError, dm |-> NoDistances]

----------------------------------------------------------------------------
(* beta_diversity *)

ErrIncompatible == ValueError("pairwise_func is not compatible with id_pairs")

\* the branch of the metric resolution that is taken
BetaBranch(m) ==
    IF m = Str("unweighted_unifrac") THEN "unweighted_unifrac"
    ELSE IF m = Str("weighted_unifrac") THEN "weighted_unifrac"
    ELSE IF m.kind = "callable" THEN "callable"
    ELSE "passthrough"

\* backend selection without the refusal of pairwise_func with id_pairs
SelectBackendNoRefusal(pf, pairs) ==
    IF pairs.some THEN [err |-> NoErr, pairwise_func |-> "_partial_pw"]
    ELSE IF pf = "None" THEN [err |-> NoErr, pairwise_func |-> "pdist"]
    ELSE [err |-> NoErr, pairwise_func |-> pf]

\* backend selection: the exception raised, and pairwise_func as rebound
SelectBackend(pf, pairs) ==
    IF pairs.some
    THEN IF pf # "None"
         THEN [err |-> ErrIncompatible, pairwise_func |-> pf]
         ELSE [err |-> NoErr, pairwise_func |-> "_partial_pw"]
    ELSE IF pf = "None" THEN [err |-> NoErr, pairwise_func |-> "pdist"]
    ELSE [err |-> NoErr, pairwise_func |-> pf]

\* the backend's output handed back as it is, a condensed vector expanded
\* and a square matrix not looked at
WrapUnchecked(d) ==
    IF d.form = "condensed"
    THEN [err |-> NoErr, dm |-> Square(ToSquare(d.vec, d.n), d.n)]
    ELSE [err |-> NoErr, dm |-> d]

\* return DistanceMatrix(distances, ids)
Wrap(d) == DistanceMatrix(d)

\* a caller's pairwise_func that returns the full square matrix
user_square(X, m) ==
    LET n == Len(X.rows)
    IN Square([c \in Cells(n) |-> CallMetric(m, X.rows[c[1]], X.rows[c[2]])], n)

\* if validate: counts = _validate_counts_matrix(counts, ids=ids)
beta_validate ==
    /\ pc = "b_validate"
    /\ IF validate /\ ValidateError(counts) # NoErr
       THEN /\ err' = ValidateError(counts)
            /\ pc' = "raised"
            /\ UNCHANGED counts
       ELSE /\ counts' = IF validate THEN validate_counts_matrix(counts)
                         ELSE counts
            /\ pc' = "b_resolve"
            /\ UNCHANGED err
    /\ UNCHANGED <<entry, args, metric, ids, validate, pairwise_func, id_pairs,
                   kwargs, tree, dm, k, results, distances, ret, calls,
                   writes, setups, backends>>

\* the unifrac branches: keyword extraction, then the tree-aware setup
beta_resolve_unifrac ==
    /\ pc = "b_resolve"
    /\ BetaBranch(metric) \in {"unweighted_unifrac", "weighted_unifrac"}
    /\ LET kw == IF BetaBranch(metric) = "weighted_unifrac"
                 THEN kwargs \ {"normalized"} ELSE kwargs
       IN IF PhyloKwargsError(kw) # NoErr
          THEN /\ err' = PhyloKwargsError(kw)
               /\ pc' = "raised"
               /\ kwargs' = kw
               /\ UNCHANGED <<metric, counts, setups>>
          ELSE /\ setups' = Append(setups, BetaBranch(metric))
               /\ kwargs' = kw \ {"otu_ids", "tree"}
               /\ IF SetupError(validate, tree) # NoErr
                  THEN /\ err' = SetupError(validate, tree)
                       /\ pc' = "raised"
                       /\ UNCHANGED <<metric, counts>>
                  ELSE /\ metric' = Callable(BetaBranch(metric))
                       /\ counts' = counts_by_node(counts)
                       /\ pc' = "b_backend"
                       /\ UNCHANGED err
    /\ UNCHANGED <<entry, args, ids, validate, pairwise_func, id_pairs, tree,
                   dm, k, results, distances, ret, calls, writes, backends>>

\* the callable branch binds kwargs and empties it; any other string is
\* left for the backend
beta_resolve_other ==
    /\ pc = "b_resolve"
    /\ BetaBranch(metric) \in {"callable", "passthrough"}
    /\ kwargs' = IF BetaBranch(metric) = "callable" THEN {} ELSE kwargs
    /\ pc' = "b_backend"
    /\ UNCHANGED <<entry, args, metric, counts, ids, validate, pairwise_func,
                   id_pairs, tree, dm, k, results, distances, ret, err, calls,
                   writes, setups, backends>>

\* the choice of the backend
beta_backend ==
    /\ pc = "b_backend"
    /\ LET b == SelectBackend(pairwise_func, id_pairs)
       IN IF b.err # NoErr
          THEN /\ err' = b.err
               /\ pc' = "raised"
               /\ UNCHANGED pairwise_func
          ELSE /\ pairwise_func' = b.pairwise_func
               /\ pc' = "b_invoke"
               /\ UNCHANGED err
    /\ UNCHANGED <<entry, args, metric, counts, ids, validate, id_pairs,
                   kwargs, tree, dm, k, results, distances, ret, calls,
                   writes, setups, backends>>

\* distances = functools.partial(_partial_pw, ids, id_pairs)(counts, metric)
beta_invoke_partial_pw ==
    /\ pc = "b_invoke"
    /\ pairwise_func = "_partial_pw"
    /\ backends' = Append(backends, "_partial_pw")
    /\ pc' = "pw_enter"
    /\ UNCHANGED <<entry, args, metric, counts, ids, validate, pairwise_func,
                   id_pairs, kwargs, tree, dm, k, results, distances, ret,
                   err, calls, writes, setups>>

\* distances = pairwise_func(counts, metric=metric): pdist, or the caller's
beta_invoke_all_pairs ==
    /\ pc = "b_invoke"
    /\ pairwise_func \in {"pdist", "user_condensed", "user_square"}
    /\ backends' = Append(backends, pairwise_func)
    /\ distances' = IF pairwise_func = "user_square"
                    THEN user_square(counts, metric)
                    ELSE pdist(counts, metric)
    /\ calls' = calls \o (IF pairwise_func = "user_square"
                          THEN UpperPairs(Len(counts.rows))
                               \o [i \in 1..Len(counts.rows) |-> <<i, i>>]
                          ELSE UpperPairs(Len(counts.rows)))
    /\ pc' = "b_wrap"
    /\ UNCHANGED <<entry, args, metric, counts, ids, validate, pairwise_func,
                   id_pairs, kwargs, tree, dm, k, results, ret, err, writes,
                   setups>>

\* return DistanceMatrix(distances, ids)
beta_wrap ==
    /\ pc = "b_wrap"
    /\ LET w == Wrap(distances)
       IN IF w.err # NoErr
          THEN /\ err' = w.err
               /\ pc' = "raised"
               /\ UNCHANGED ret
          ELSE /\ ret' = w.dm
               /\ pc' = "returned"
               /\ UNCHANGED err
    /\ UNCHANGED <<entry, args, metric, counts, ids, validate, pairwise_func,
                   id_pairs, kwargs, tree, dm, k, results, distances, calls,
                   writes, setups, backends>>

----------------------------------------------------------------------------
(* alpha_diversity *)

\* the keys of _get_alpha_diversity_metric_map()
metric_map ==
    {"ace", "chao1", "chao1_ci", "berger_parker_d", "brillouin_d",
     "dominance", "doubles", "enspie", "esty_ci", "faith_pd", "fisher_alpha",
     "goods_coverage", "heip_e", "kempton_taylor_q", "margalef",
     "mcintosh_d", "mcintosh_e", "menhinick", "michaelis_menten_fit",
     "observed_otus", "osd", "pielou_e", "robbins", "shannon", "simpson",
     "simpson_e", "singles", "strong", "gini_index", "lladser_pe",
     "lladser_ci"}

ErrUnknownMetric(m) ==
    [type |-> "ValueError", msg |-> "Unknown metric provided", value |-> m.name]

ErrSeriesLength == ValueError("Length of values does not match length of index")

\* the resolution with the registry looked up before the tree-aware name
AlphaBranchRegistryFirst(m) ==
    IF m.kind = "str" /\ m.name \in metric_map THEN "registry"
    ELSE IF m = Str("faith_pd") THEN "faith_pd"
    ELSE IF m.kind = "callable" THEN "callable"
    ELSE "unknown"

\* the branch of the metric resolution that is taken
AlphaBranch(m) ==
    IF m = Str("faith_pd") THEN "faith_pd"
    ELSE IF m.kind = "callable" THEN "callable"
    ELSE IF m.kind = "str" /\ m.name \in metric_map THEN "registry"
    ELSE "unknown"

\* what `for c in counts` yields: the rows of a matrix, the scalars of a
\* 1-D vector
Elems(X) ==
    IF X.nd = 2
    THEN [r \in DOMAIN X.rows |-> [nd |-> 1, v |-> X.rows[r]]]
    ELSE [i \in DOMAIN X.rows[1] |-> [nd |-> 0, v |-> <<X.rows[1][i]>>]]

\* a comprehension that applies the metric to the first element every time
ElemAtFirst(X, i) == Elems(X)[1]

\* the i-th element the comprehension applies the metric to
ElemAt(X, i) == Elems(X)[i]

\* metric(c): the value of an alpha metric, left uninterpreted
Apply(m, c) == [f |-> m.name, arg |-> c]

\* the index pd.Series gives the values: ids, or the positions when ids is
\* None
SeriesIndex(ids_, n) == IF ids_.some THEN ids_.v ELSE [i \in 1..n |-> i - 1]

\* if validate: counts = _validate_counts_matrix(counts, ids=ids)
alpha_validate ==
    /\ pc = "a_validate"
    /\ IF validate /\ ValidateError(counts) # NoErr
       THEN /\ err' = ValidateError(counts)
            /\ pc' = "raised"
            /\ UNCHANGED counts
       ELSE /\ counts' = IF validate THEN validate_counts_matrix(counts)
                         ELSE counts
            /\ pc' = "a_resolve"
            /\ UNCHANGED err
    /\ UNCHANGED <<entry, args, metric, ids, validate, pairwise_func, id_pairs,
                   kwargs, tree, dm, k, results, distances, ret, calls,
                   writes, setups, backends>>

\* the faith_pd branch: keyword extraction, then the tree-aware setup
alpha_resolve_faith_pd ==
    /\ pc = "a_resolve"
    /\ AlphaBranch(metric) = "faith_pd"
    /\ IF PhyloKwargsError(kwargs) # NoErr
       THEN /\ err' = PhyloKwargsError(kwargs)
            /\ pc' = "raised"
            /\ UNCHANGED <<metric, counts, kwargs, setups, k>>
       ELSE /\ setups' = Append(setups, "faith_pd")
            /\ kwargs' = kwargs \ {"otu_ids", "tree"}
            /\ IF SetupError(validate, tree) # NoErr
               THEN /\ err' = SetupError(validate, tree)
                    /\ pc' = "raised"
                    /\ UNCHANGED <<metric, counts, k>>
               ELSE /\ metric' = Callable("_faith_pd")
                    /\ counts' = counts_by_node(counts)
                    /\ k' = 1
                    /\ pc' = "a_apply"
                    /\ UNCHANGED err
    /\ UNCHANGED <<entry, args, ids, validate, pairwise_func, id_pairs, tree,
                   dm, results, distances, ret, calls, writes, backends>>

\* the callable branch, the registry branch and the unknown-metric error
alpha_resolve_other ==
    /\ pc = "a_resolve"
    /\ AlphaBranch(metric) # "faith_pd"
    /\ IF AlphaBranch(metric) = "unknown"
       THEN /\ err' = ErrUnknownMetric(metric)
            /\ pc' = "raised"
            /\ UNCHANGED <<metric, k>>
       ELSE /\ metric' = Callable(metric.name)
            /\ k' = 1
            /\ pc' = "a_apply"
            /\ UNCHANGED err
    /\ UNCHANGED <<entry, args, counts, ids, validate, pairwise_func, id_pairs,
                   kwargs, tree, dm, results, distances, ret, calls, writes,
                   setups, backends>>

\* one element of results = [metric(c, **kwargs) for c in counts]
alpha_apply ==
    /\ pc = "a_apply"
    /\ k <= Len(Elems(counts))
    /\ results' = Append(results, Apply(metric, ElemAt(counts, k)))
    /\ calls' = Append(calls, ElemAt(counts, k))
    /\ k' = k + 1
    /\ UNCHANGED <<entry, args, pc, metric, counts, ids, validate,
                   pairwise_func, id_pairs, kwargs, tree, dm, distances, ret,
                   err, writes, setups, backends>>

\* return pd.Series(results, index=ids)
alpha_return ==
    /\ pc = "a_apply"
    /\ k > Len(Elems(counts))
    /\ IF ids.some /\ Len(ids.v) # Len(results)
       THEN /\ err' = ErrSeriesLength
            /\ pc' = "raised"
            /\ UNCHANGED ret
       ELSE /\ ret' = [index |-> SeriesIndex(ids, Len(results)),
                       values |-> results]
            /\ pc' = "returned"
            /\ UNCHANGED err
    /\ UNCHANGED <<entry, args, metric, counts, ids, validate, pairwise_func,
                   id_pairs, kwargs, tree, dm, k, results, distances, calls,
                   writes, setups, backends>>

----------------------------------------------------------------------------
(* The arguments of a call. *)

\* longest id_pairs list passed to beta_diversity
MaxBetaPairs == 1

IdPair == Range(SampleIds) \X Range(SampleIds)

PairLists(max) == UNION {[1..n -> IdPair] : n \in 0..max}

\* a row that validation refuses
NegativeRow == <<-1, 1>>

\* the matrices of n samples: those of valid rows, and one with a negative
\* count
Matrices(n) ==
    {Matrix(rows) : rows \in [1..n -> ValidRows]}
        \cup {Matrix([r \in 1..n |-> NegativeRow])}

Vectors == {Array(1, <<row>>) : row \in ValidRows \cup {NegativeRow}}

Samples(X) == IF X.nd = 2 THEN Len(X.rows) ELSE 1

BinaryCallables == {Callable("manhattan"), Callable("excess")}

\* the keywords that go with a metric, and the tree passed among them
PhyloKeywords(val) ==
    {[kwargs |-> {}, tree |-> "none"],
     [kwargs |-> {"otu_ids", "tree"}, tree |-> "ok"],
     [kwargs |-> {"otu_ids", "tree", "normalized"}, tree |-> "ok"]}
        \cup (IF val THEN {[kwargs |-> {"otu_ids", "tree"},
                            tree |-> "missing_tip"]} ELSE {})

NoKeywords == {[kwargs |-> {}, tree |-> "none"]}

\* the variables a call starts with, the parameters aside
Fresh ==
    /\ args = [metric |-> metric, counts |-> counts,
               pairwise_func |-> pairwise_func, kwargs |-> kwargs]
    /\ dm = <<>>
    /\ k = 0
    /\ results = <<>>
    /\ distances = NoDistances
    /\ ret = NoDistances
    /\ err = NoErr
    /\ calls = <<>>
    /\ writes = <<>>
    /\ setups = <<>>
    /\ backends = <<>>

\* a direct call _partial_pw(ids, id_pairs, counts, metric)
InitPartial ==
    /\ entry = "_partial_pw"
    /\ pc = "pw_enter"
    /\ \E n \in 1..Len(SampleIds) :
          /\ ids \in {None, Some(SubSeq(SampleIds, 1, n))}
          /\ counts \in Matrices(n)
    /\ id_pairs \in {Some(p) : p \in PairLists(MaxPairs)}
    /\ metric \in BinaryCallables \cup {Str("cityblock")}
    /\ validate = FALSE
    /\ pairwise_func = "None"
    /\ kwargs = {}
    /\ tree = "none"
    /\ Fresh

\* a call beta_diversity(metric, counts, ids, validate, pairwise_func,
\* id_pairs, **kwargs)
InitBeta ==
    /\ entry = "beta_diversity"
    /\ pc = "b_validate"
    /\ validate \in BOOLEAN
    /\ \E n \in 1..Len(SampleIds) :
          /\ ids \in {None, Some(SubSeq(SampleIds, 1, n))}
          /\ counts \in Matrices(n)
    /\ id_pairs \in {None} \cup {Some(p) : p \in PairLists(MaxBetaPairs)}
    /\ pairwise_func \in {"None", "user_condensed", "user_square"}
    /\ metric \in BinaryCallables \cup
                  {Str("cityblock"), Str("unweighted_unifrac"),
                   Str("weighted_unifrac")}
    /\ \E kw \in (IF BetaBranch(metric) \in {"unweighted_unifrac",
                                              "weighted_unifrac"}
                  THEN PhyloKeywords(validate) ELSE NoKeywords) :
          /\ kwargs = kw.kwargs
          /\ tree = kw.tree
    /\ Fresh

\* a call alpha_diversity(metric, counts, ids, validate, **kwargs)
InitAlpha ==
    /\ entry = "alpha_diversity"
    /\ pc = "a_validate"
    /\ validate \in BOOLEAN
    /\ counts \in Vectors \cup UNION {Matrices(n) : n \in 1..Len(SampleIds)}
    /\ ids \in {None, Some(SubSeq(SampleIds, 1, Samples(counts)))}
    /\ metric \in {Str(m) : m \in metric_map \cup {"bogus"}}
                      \cup {Callable("user_metric"),
                            [kind |-> "other", name |-> "42"]}
    /\ \E kw \in (IF metric = Str("faith_pd")
                  THEN {w \in PhyloKeywords(validate) :
                            "normalized" \notin w.kwargs}
                  ELSE NoKeywords) :
          /\ kwargs = kw.kwargs
          /\ tree = kw.tree
    /\ id_pairs = None
    /\ pairwise_func = "None"
    /\ Fresh

NextPartial ==
    \/ partial_pw_checks
    \/ partial_pw_loop
    \/ partial_pw_return

NextBeta ==
    \/ beta_validate
    \/ beta_resolve_unifrac
    \/ beta_resolve_other
    \/ beta_backend
    \/ beta_invoke_partial_pw
    \/ beta_invoke_all_pairs
    \/ beta_wrap
    \/ NextPartial

NextAlpha ==
    \/ alpha_validate
    \/ alpha_resolve_faith_pd
    \/ alpha_resolve_other
    \/ alpha_apply
    \/ alpha_return

Init == InitAlpha \/ InitBeta \/ InitPartial

Next == NextAlpha \/ NextBeta

\* direct calls of _partial_pw
SpecPartial == InitPartial /\ [][NextPartial]_vars

\* calls of beta_diversity
SpecBeta == InitBeta /\ [][NextBeta]_vars

\* calls of alpha_diversity
SpecAlpha == InitAlpha /\ [][NextAlpha]_vars

\* calls of any of the three
Spec == Init /\ [][Next]_vars

----------------------------------------------------------------------------
(* Properties. *)

Terminal == pc \in {"returned", "raised"}

\* some unordered pair occurs at two positions of the list, in the same or in
\* opposite orientations
Repeated(pairs) ==
    \E p, q \in DOMAIN pairs :
        p # q /\ (pairs[p] = pairs[q] \/ pairs[p] = Reversed(pairs[q]))

SelfPair(pairs) == \E p \in DOMAIN pairs : pairs[p][1] = pairs[p][2]

InIds(pairs) == ids.some /\ all_ids_in_pairs(pairs) \subseteq Range(ids.v)

\* id_pairs holds every unordered pair of distinct ids exactly once
FullPairSet ==
    /\ id_pairs.some
    /\ InIds(id_pairs.v)
    /\ Len(id_pairs.v) = Len(UpperPairs(Len(ids.v)))
    /\ \A c \in Range(UpperPairs(Len(ids.v))) :
          Cardinality({p \in DOMAIN id_pairs.v :
                          id_pairs.v[p] \in {<<ids.v[c[1]], ids.v[c[2]]>>,
                                             <<ids.v[c[2]], ids.v[c[1]]>>}}) = 1

\* the pair of rows i, j is listed as (ids[i], ids[j])
Listed(i, j) == <<ids.v[i], ids.v[j]>> \in Range(id_pairs.v)

\* the metric applied to rows i and j, in this order
M(i, j) == CallMetric(metric, counts.rows[i], counts.rows[j])

\* the entry of the returned condensed vector for the rows of cell c
Entry(c) ==
    ret.vec[CHOOSE p \in DOMAIN ret.vec : UpperPairs(ret.n)[p] = c]

\* C1 as stated: for a full pair set, whatever the metric and the orientation
\* of the listed pairs, _partial_pw returns the condensed vector of pdist
C1_RestrictedEqualsAllPairs ==
    (entry = "_partial_pw" /\ pc = "returned" /\ FullPairSet)
        => ret = pdist(counts, metric)

\* C1 amended: for a full pair set, the entry for rows i < j is the metric
\* applied in the orientation the pair is listed in, so the vector is that of
\* pdist whenever the metric is symmetric on each pair listed in reverse
C1_RestrictedFollowsListedOrientation ==
    (entry = "_partial_pw" /\ pc = "returned" /\ FullPairSet)
        => /\ \A c \in Range(UpperPairs(Len(ids.v))) :
                 Entry(c) = IF Listed(c[1], c[2]) THEN M(c[1], c[2])
                            ELSE M(c[2], c[1])
           /\ (\A c \in Range(UpperPairs(Len(ids.v))) :
                  Listed(c[2], c[1]) => M(c[2], c[1]) = M(c[1], c[2]))
                 => ret = pdist(counts, metric)

\* three samples, all three pairs listed, one of them in reverse, and the
\* vector returned is that of pdist and is not zero
C1_Witness ==
    /\ entry = "_partial_pw"
    /\ pc = "returned"
    /\ FullPairSet
    /\ Len(ids.v) = 3
    /\ \E c \in Range(UpperPairs(3)) : Listed(c[2], c[1])
    /\ ret = pdist(counts, metric)
    /\ \E p \in DOMAIN ret.vec : ret.vec[p] > 0

\* C2: whatever beta_diversity returns is a symmetric matrix with a zero
\* diagonal
C2_SymmetricHollow ==
    (entry = "beta_diversity" /\ pc = "returned")
        => /\ ret.form = "square"
           /\ IsSymmetric(ret.mat, ret.n)
           /\ IsHollow(ret.mat, ret.n)

\* beta_diversity has returned the distances of the restricted computer, one
\* of them not zero
C2_Witness ==
    /\ entry = "beta_diversity"
    /\ pc = "returned"
    /\ backends = <<"_partial_pw">>
    /\ \E c \in Cells(ret.n) : ret.mat[c] > 0

\* C3: with ids given and every listed id among them, a list that repeats an
\* unordered pair (in the same or the opposite orientation) is refused with
\* the duplicate error and the metric is never called; a list without
\* repetition and without self-pair is not refused as a duplicate
C3_DuplicatePairsRejected ==
    (entry = "_partial_pw" /\ InIds(id_pairs.v))
        => /\ Repeated(id_pairs.v)
                => /\ calls = <<>>
                   /\ pc # "pw_enter" => (pc = "raised" /\ err = ErrDuplicate)
           /\ (~Repeated(id_pairs.v) /\ ~SelfPair(id_pairs.v))
                => /\ err # ErrDuplicate
                   /\ (pc # "pw_enter" /\ metric.kind = "callable")
                        => pc # "raised"

\* a pair listed once as (u, v) and once as (v, u) has been refused
C3_Witness ==
    /\ entry = "_partial_pw"
    /\ pc = "raised"
    /\ err = ErrDuplicate
    /\ InIds(id_pairs.v)
    /\ \E p, q \in DOMAIN id_pairs.v :
          /\ id_pairs.v[p] = Reversed(id_pairs.v[q])
          /\ id_pairs.v[p][1] # id_pairs.v[p][2]

BothSupplied == args.pairwise_func # "None" /\ id_pairs.some

\* C4 as stated: a call that supplies both pairwise_func and id_pairs ends in
\* a ValueError, whatever the metric, and invokes neither backend
C4_BothSuppliedIsValueError ==
    (entry = "beta_diversity" /\ BothSupplied)
        => /\ backends = <<>>
           /\ pc # "returned"
           /\ pc = "raised" => err.type = "ValueError"

\* C4 amended: a call that supplies both never returns and invokes neither
\* backend; it ends in the ValueError of the exclusion, or in the error that
\* validation or the resolution of a unifrac metric raised before it, which
\* is a lookup error when the tree-aware setup refuses the tree
C4_BothSuppliedIsRefused ==
    (entry = "beta_diversity" /\ BothSupplied)
        => /\ backends = <<>>
           /\ calls = <<>>
           /\ pc \in {"b_validate", "b_resolve", "b_backend", "raised"}
           /\ pc = "raised"
                => \/ err = ErrIncompatible
                   \/ err = ErrInvalidCounts /\ validate
                   \/ /\ err \in {ErrPhyloKwargs, MissingNodeError}
                      /\ BetaBranch(args.metric)
                            \in {"unweighted_unifrac", "weighted_unifrac"}
                      /\ err = MissingNodeError => setups # <<>>

\* a call with a callable metric and both arguments has been refused
C4_Witness ==
    /\ entry = "beta_diversity"
    /\ BothSupplied
    /\ args.metric.kind = "callable"
    /\ pc = "raised"
    /\ err = ErrIncompatible

\* the call is alpha_diversity(m, X, ids) for a registry name m and a valid
\* matrix X, and has ended
AlphaRegistryCallEnded ==
    /\ entry = "alpha_diversity"
    /\ args.metric.kind = "str"
    /\ args.metric.name \in metric_map
    /\ args.counts.nd = 2
    /\ IsValidCounts(args.counts)
    /\ Terminal

\* the series returned has one value per row of the matrix rows, the k-th
\* being f applied to the k-th row, and is indexed by ids or by position
SeriesOf(f, rows) ==
    /\ pc = "returned"
    /\ Len(ret.values) = Len(rows)
    /\ \A i \in DOMAIN rows :
          ret.values[i] = Apply(Callable(f), [nd |-> 1, v |-> rows[i]])
    /\ IF ids.some THEN ret.index = ids.v
       ELSE ret.index = [i \in DOMAIN rows |-> i - 1]

\* C5 as stated: for every name of the registry the call returns the series
\* of the registry's metric applied to the rows of X
C5_RegistryMetricPerRow ==
    AlphaRegistryCallEnded
        => SeriesOf(args.metric.name, args.counts.rows)

\* C5 amended: so it is for every name of the registry but faith_pd; for
\* faith_pd the call needs the otu_ids and tree keywords (without them it
\* raises an input error) and a tree the setup accepts, and the k-th value is
\* _faith_pd applied to the k-th row of the node-level counts
C5_RegistryMetricPerRowButFaithPd ==
    AlphaRegistryCallEnded
        => IF args.metric.name # "faith_pd"
           THEN SeriesOf(args.metric.name, args.counts.rows)
           ELSE IF PhyloKwargsError(args.kwargs) # NoErr
           THEN pc = "raised" /\ err = ErrPhyloKwargs
           ELSE IF SetupError(validate, tree) # NoErr
           THEN pc = "raised" /\ err = MissingNodeError
           ELSE SeriesOf("_faith_pd", counts_by_node(args.counts).rows)

\* a registry metric has been applied to three samples with ids
C5_Witness ==
    /\ AlphaRegistryCallEnded
    /\ args.metric = Str("shannon")
    /\ Len(args.counts.rows) = 3
    /\ ids.some
    /\ pc = "returned"
    /\ Len(ret.values) = 3

\* C6 as stated: a 1-D vector is one sample whatever `validate` is: the
\* metric is called once, on the whole vector, and the series has one entry
C6_VectorIsOneSample ==
    (/\ entry = "alpha_diversity"
     /\ args.counts.nd = 1
     /\ IsValidCounts(args.counts)
     /\ AlphaBranch(args.metric) \in {"callable", "registry"}
     /\ Terminal)
        => /\ pc = "returned"
           /\ calls = <<[nd |-> 1, v |-> args.counts.rows[1]]>>
           /\ Len(ret.values) = 1

PreconditionErrors ==
    {ErrIdsRequired, ErrNotSubset, ErrDuplicate, ErrNotCallable,
     ErrIncompatible, ErrPhyloKwargs, ErrUnknownMetric(args.metric)}

IsUnifrac(m) == BetaBranch(m) \in {"unweighted_unifrac", "weighted_unifrac"}

\* the arguments of the call violate one of the preconditions
ViolatesPrecondition ==
    \/ /\ entry = "alpha_diversity"
       /\ \/ AlphaBranch(args.metric) = "unknown"
          \/ /\ AlphaBranch(args.metric) = "faith_pd"
             /\ PhyloKwargsError(args.kwargs) # NoErr
    \/ /\ entry = "beta_diversity"
       /\ IsUnifrac(args.metric)
       /\ PhyloKwargsError(args.kwargs \ {"normalized"}) # NoErr
    \/ /\ entry = "beta_diversity"
       /\ id_pairs.some
       /\ \/ args.pairwise_func # "None"
          \/ BetaBranch(args.metric) = "passthrough"
    \/ /\ entry = "_partial_pw"
       /\ args.metric.kind = "str"
    \/ /\ entry \in {"beta_diversity", "_partial_pw"}
       /\ id_pairs.some
       /\ \/ ~InIds(id_pairs.v)
          \/ Repeated(id_pairs.v)
          \/ SelfPair(id_pairs.v)

\* no metric has been called, no cell of dm assigned, no all-pairs backend
\* invoked and no value produced
NothingComputed ==
    /\ calls = <<>>
    /\ writes = <<>>
    /\ results = <<>>
    /\ distances = NoDistances
    /\ \A i \in DOMAIN backends : backends[i] = "_partial_pw"
    /\ pc # "returned"

\* C7 as stated: when a call ends in a precondition failure nothing has been
\* computed: no metric call, no tree-aware setup, no pairwise backend
C7_FailsBeforeAnyComputation ==
    (pc = "raised" /\ err \in PreconditionErrors)
        => NothingComputed /\ setups = <<>>

\* C7 amended: a call whose arguments violate a precondition never calls a
\* metric, never runs a pairwise computation and returns nothing; the
\* tree-aware setup has run before the failure only in beta_diversity with a
\* unifrac metric, when the failure is the exclusion of pairwise_func with
\* id_pairs or one of the checks _partial_pw makes of ids and id_pairs
C7_FailsBeforeMetricAndPairwise ==
    /\ (pc = "raised" /\ err \in PreconditionErrors)
          => /\ NothingComputed
             /\ setups # <<>>
                  => /\ entry = "beta_diversity"
                     /\ IsUnifrac(args.metric)
                     /\ err \in {ErrIncompatible, ErrIdsRequired,
                                 ErrNotSubset, ErrDuplicate}
    /\ ViolatesPrecondition => NothingComputed

\* beta_diversity with a unifrac metric has run the tree-aware setup and then
\* refused pairwise_func with id_pairs
C7_Witness ==
    /\ entry = "beta_diversity"
    /\ pc = "raised"
    /\ err = ErrIncompatible
    /\ setups # <<>>

\* C8: the checks of _partial_pw are made in the order ids given, ids of
\* id_pairs among ids, no pair repeated (a self-pair is its own reverse and
\* counts as repeated), metric not a name; the error raised is that of the
\* first check the arguments fail
C8_FirstViolatedCheckReported ==
    (entry = "_partial_pw" /\ pc # "pw_enter")
        => IF ~ids.some THEN pc = "raised" /\ err = ErrIdsRequired
           ELSE IF ~InIds(id_pairs.v) THEN pc = "raised" /\ err = ErrNotSubset
           ELSE IF Repeated(id_pairs.v) \/ SelfPair(id_pairs.v)
           THEN pc = "raised" /\ err = ErrDuplicate
           ELSE IF metric.kind = "str"
           THEN pc = "raised" /\ err = ErrNotCallable
           ELSE err \notin {ErrIdsRequired, ErrNotSubset, ErrDuplicate,
                            ErrNotCallable}

\* a list that names an unknown id and repeats a pair, with a metric given by
\* name, has been refused for the unknown id
C8_Witness ==
    /\ entry = "_partial_pw"
    /\ pc = "raised"
    /\ err = ErrNotSubset
    /\ ids.some
    /\ Repeated(id_pairs.v)
    /\ metric.kind = "str"

\* C9: alpha_diversity resolves the metric once, by the first branch that
\* matches: faith_pd by the tree-aware setup and never by its registry entry,
\* then a callable, then a registry name; any other metric ends in a
\* ValueError, the one that names it unless validation failed first, and no
\* metric is called
C9_AlphaResolutionOrder ==
    entry = "alpha_diversity"
        => /\ Len(setups) <= 1
           /\ (pc \in {"a_apply", "returned"} \/ err = ErrSeriesLength)
                => IF args.metric = Str("faith_pd")
                   THEN metric = Callable("_faith_pd") /\ setups = <<"faith_pd">>
                   ELSE IF args.metric.kind = "callable"
                   THEN metric = args.metric /\ setups = <<>>
                   ELSE /\ args.metric.kind = "str"
                        /\ args.metric.name \in metric_map
                        /\ metric = Callable(args.metric.name)
                        /\ setups = <<>>
           /\ (/\ args.metric # Str("faith_pd")
               /\ args.metric.kind # "callable"
               /\ ~(args.metric.kind = "str" /\ args.metric.name \in metric_map))
                => /\ calls = <<>>
                   /\ setups = <<>>
                   /\ pc \in {"a_validate", "a_resolve", "raised"}
                   /\ pc = "raised"
                        => /\ err.type = "ValueError"
                           /\ err # ErrInvalidCounts
                                => err = ErrUnknownMetric(args.metric)

\* faith_pd has been resolved by the tree-aware branch and the call returned
C9_Witness ==
    /\ entry = "alpha_diversity"
    /\ args.metric = Str("faith_pd")
    /\ pc = "returned"
    /\ metric = Callable("_faith_pd")
    /\ Len(calls) = 3

\* C10: once the checks have passed, the metric is called once per listed
\* pair, in order; no diagonal cell is assigned, no cell is assigned twice
\* and never both (i, j) and (j, i); the vector returned holds, for a listed
\* pair, the one value of the metric and, for an unlisted pair, 0
C10_DisjointWrites ==
    (entry = "_partial_pw" /\ pc \in {"pw_loop", "returned"})
        => /\ calls = [i \in 1..(k - 1) |->
                          id_pairs_indexed(ids, id_pairs.v, i)]
           /\ writes = calls
           /\ \A p \in DOMAIN writes : writes[p][1] # writes[p][2]
           /\ \A p, q \in DOMAIN writes :
                 p # q => /\ writes[p] # writes[q]
                          /\ writes[p] # Reversed(writes[q])
           /\ pc = "returned"
                => /\ Len(calls) = Len(id_pairs.v)
                   /\ \A c \in Range(UpperPairs(Len(ids.v))) :
                         Entry(c) = IF Listed(c[1], c[2]) THEN M(c[1], c[2])
                                    ELSE IF Listed(c[2], c[1])
                                    THEN M(c[2], c[1])
                                    ELSE 0

\* two of the three pairs of three samples are listed, one value is not zero
C10_Witness ==
    /\ entry = "_partial_pw"
    /\ pc = "returned"
    /\ Len(ids.v) = 3
    /\ Len(id_pairs.v) = 2
    /\ \E p \in DOMAIN ret.vec : ret.vec[p] > 0

====
